---- MODULE Spec2Model ----
(***************************************************************************)
(* User creation in crowdsource-rs: the value objects UserName and         *)
(* EmailAddress, the HTTP handler create_user, the domain Service, the     *)
(* Postgres-backed SqlxUserRepository and the CollectingUserNotifier.      *)
(*                                                                         *)
(* A string is a sequence of one-character strings, so that trimming and   *)
(* whitespace tests are computed as the code computes them; to_string      *)
(* renders such a sequence as a TLA+ string for messages and table rows.   *)
(***************************************************************************)
EXTENDS Integers, Sequences, FiniteSets, TLC

\* Number of concurrent create-user requests (one axum task each).
NumProcs == 2
\* Longest raw string given to UserName::new in SpecUserName.
MaxLen == 4

Procs == 1..NumProcs

(***************************************************************************)
(* Characters and strings                                                  *)
(***************************************************************************)
\* char::is_whitespace, on the characters the model draws from
Whitespace == {" ", "\t"}
IsWhitespace(c) == c \in Whitespace

Chars == {"a", "b", " ", "\t"}

RECURSIVE to_string(_)
to_string(s) == IF s = <<>> THEN "" ELSE s[1] \o to_string(Tail(s))

RECURSIVE TrimStart(_)
TrimStart(s) ==
    IF s # <<>> /\ IsWhitespace(s[1]) THEN TrimStart(Tail(s)) ELSE s

RECURSIVE TrimEnd(_)
TrimEnd(s) ==
    IF s # <<>> /\ IsWhitespace(s[Len(s)])
    THEN TrimEnd(SubSeq(s, 1, Len(s) - 1))
    ELSE s

\* str::trim
Trim(s) == TrimEnd(TrimStart(s))

\* str::contains(|c| c.is_whitespace())
ContainsWhitespace(s) == \E i \in 1..Len(s) : IsWhitespace(s[i])

StringsUpTo(n) == UNION {[1..k -> Chars] : k \in 0..n}

(***************************************************************************)
(* Value objects (domain/crowdsrc/models/user.rs)                          *)
(***************************************************************************)
\* UserName::new that reports the trimmed string in WithWhitespace
UserName_newReportsTrimmed(raw) ==
    LET trimmed == Trim(raw) IN
    IF trimmed = <<>>
    THEN [tag |-> "Err", kind |-> "Empty"]
    ELSE IF ContainsWhitespace(trimmed)
         THEN [tag |-> "Err", kind |-> "WithWhitespace",
               invalid_username |-> to_string(trimmed)]
         ELSE [tag |-> "Ok", value |-> trimmed]

UserName_new(raw) ==
    LET trimmed == Trim(raw) IN
    IF trimmed = <<>>
    THEN [tag |-> "Err", kind |-> "Empty"]
    ELSE IF ContainsWhitespace(trimmed)
         THEN [tag |-> "Err", kind |-> "WithWhitespace",
               invalid_username |-> to_string(raw)]
         ELSE [tag |-> "Ok", value |-> trimmed]

\* The last "@" of s, 0 when there is none (rsplit_once('@') of the email_address crate)
LastAt(s) ==
    IF \E i \in 1..Len(s) : s[i] = "@"
    THEN CHOOSE i \in 1..Len(s) :
            s[i] = "@" /\ \A j \in (i + 1)..Len(s) : s[j] # "@"
    ELSE 0

\* Unquoted local parts and domains: no "@" and no whitespace
IsAtomText(s) == \A i \in 1..Len(s) : s[i] # "@" /\ ~IsWhitespace(s[i])

\* email_address::EmailAddress::from_str: local-part "@" domain, both non-empty
EmailParseError(s) ==
    LET at == LastAt(s) IN
    IF at = 0 THEN "Missing separator character '@'."
    ELSE IF at = 1 THEN "Local part is empty."
    ELSE IF ~IsAtomText(SubSeq(s, 1, at - 1)) THEN "Invalid character."
    ELSE IF at = Len(s) THEN "Domain is empty."
    ELSE IF ~IsAtomText(SubSeq(s, at + 1, Len(s))) THEN "Invalid character."
    ELSE ""

EmailAddress_new(email) ==
    IF EmailParseError(email) = ""
    THEN [tag |-> "Ok", value |-> email]
    ELSE [tag |-> "Err", invalid_email |-> to_string(email),
          message |-> EmailParseError(email)]

\* CreateUserHttpRequestBody::try_into_domain
try_into_domain(body) ==
    LET name == UserName_new(body.username) IN
    IF name.tag = "Err"
    THEN [tag |-> "Err", variant |-> "Name", cause |-> name]
    ELSE LET email == EmailAddress_new(body.email_address) IN
         IF email.tag = "Err"
         THEN [tag |-> "Err", variant |-> "EmailAddress", cause |-> email]
         ELSE [tag |-> "Ok",
               value |-> [name |-> name.value, email |-> email.value]]

\* impl fmt::Display for UserName / for EmailAddress: the wrapped string
Display(v) == to_string(v)

\* #[derive(Debug)] of UserName, as format!("{:?}") prints it
DebugUserName(v) == "UserName(\"" \o to_string(v) \o "\")"

\* #[derive(Debug)] of EmailAddress, a wrapper of the crate's EmailAddress
DebugEmailAddress(v) == "EmailAddress(EmailAddress(\"" \o to_string(v) \o "\"))"

\* User::new
User_new(id, username, email_addr) ==
    [id |-> id, username |-> username, email_addr |-> email_addr]

\* Result<User, CreateUserError> and its three error variants
Ok(user) == [tag |-> "Ok", user |-> user]
DuplicateUserName(username) == [tag |-> "DuplicateUserName", username |-> username]
DuplicateEmail(email) == [tag |-> "DuplicateEmail", email |-> email]
\* Unknown(anyhow::Error): the outermost context and the error it wraps
Unknown(context, cause) == [tag |-> "Unknown", context |-> context, cause |-> cause]

NoResult == [tag |-> "None"]

(***************************************************************************)
(* Responses (inbound/http/responses.rs)                                   *)
(***************************************************************************)
CREATED == 201
UNPROCESSABLE_ENTITY == 422
INTERNAL_SERVER_ERROR == 500

InternalServerError(message) == [variant |-> "InternalServerError", message |-> message]
UnprocessableEntity(message) == [variant |-> "UnprocessableEntity", message |-> message]

\* impl From<anyhow::Error> for ApiError: e.to_string() is the outermost context
ApiErrorFromAnyhow(e) == InternalServerError(e.context)

\* From<CreateUserError> that quotes the username like the email
ApiErrorFromCreateUserErrorQuoted(e) ==
    CASE e.tag = "DuplicateUserName" ->
            UnprocessableEntity("user with username '" \o Display(e.username)
                                \o "' already exists")
      [] e.tag = "DuplicateEmail" ->
            UnprocessableEntity("user with email '" \o Display(e.email)
                                \o "' already exists")
      [] e.tag = "Unknown" -> InternalServerError("Internal server error")

\* impl From<CreateUserError> for ApiError
ApiErrorFromCreateUserError(e) ==
    CASE e.tag = "DuplicateUserName" ->
            UnprocessableEntity("user with username " \o Display(e.username)
                                \o " already exists")
      [] e.tag = "DuplicateEmail" ->
            UnprocessableEntity("user with email '" \o Display(e.email)
                                \o "' already exists")
      [] e.tag = "Unknown" -> InternalServerError("Internal server error")

\* impl From<ParseCreateUserHttpRequestError> for ApiError
ApiErrorFromParseError(e) ==
    UnprocessableEntity(
        CASE e.variant = "Name" /\ e.cause.kind = "Empty" ->
                "username can't be empty"
          [] e.variant = "Name" /\ e.cause.kind = "WithWhitespace" ->
                "username '" \o e.cause.invalid_username \o "' is not valid"
          [] e.variant = "EmailAddress" ->
                "email address " \o e.cause.invalid_email \o " is invalid")

\* ApiResponseBody::new_error
new_error(status_code, message) ==
    [status_code |-> status_code, data |-> [message |-> message]]

\* IntoResponse for ApiError that sends the carried message in the 500 body
ApiErrorIntoResponseEcho(e) ==
    IF e.variant = "InternalServerError"
    THEN [status |-> INTERNAL_SERVER_ERROR,
          body |-> new_error(INTERNAL_SERVER_ERROR, e.message)]
    ELSE [status |-> UNPROCESSABLE_ENTITY,
          body |-> new_error(UNPROCESSABLE_ENTITY, e.message)]

\* impl IntoResponse for ApiError
ApiErrorIntoResponse(e) ==
    IF e.variant = "InternalServerError"
    THEN [status |-> INTERNAL_SERVER_ERROR,
          body |-> new_error(INTERNAL_SERVER_ERROR, "Internal server error")]
    ELSE [status |-> UNPROCESSABLE_ENTITY,
          body |-> new_error(UNPROCESSABLE_ENTITY, e.message)]

\* impl From<&User> for CreateUserResponseData: the identifier's string form
CreateUserResponseData(user) == [id |-> ToString(user.id)]

\* ApiSuccess::new and its IntoResponse
ApiSuccess(status, data) ==
    [status |-> status, body |-> [status_code |-> status, data |-> data]]

\* The handler's Result<ApiSuccess<CreateUserResponseData>, ApiError> for a service result
HandlerResult(result) ==
    IF result.tag = "Ok"
    THEN [tag |-> "Ok",
          value |-> ApiSuccess(CREATED, CreateUserResponseData(result.user))]
    ELSE [tag |-> "Err", value |-> ApiErrorFromCreateUserError(result)]

\* axum's rendering of the handler's result
IntoResponse(r) ==
    IF r.tag = "Ok" THEN r.value ELSE ApiErrorIntoResponse(r.value)

(***************************************************************************)
(* State                                                                   *)
(***************************************************************************)
VARIABLES
    pc,             \* where each request's task stands
    body,           \* the request's JSON body: raw username and email_address
    req,            \* the CreateUserRequest built by try_into_domain
    pending,        \* the row each open transaction has inserted and not committed
    users,          \* the committed rows of table users
    nextId,         \* the next fresh Uuid
    repoResult,     \* what UserRepository::create_user returned
    svcResult,      \* what CrowdSrcService::create_user returned
    notified,       \* the users user_created was invoked with, per request
    user_email_map, \* the CollectingUserNotifier's map
    lockHolder,     \* the writer holding the map's RwLock, 0 when free
    apiResult,      \* the handler's Result<ApiSuccess, ApiError>
    response,       \* the HTTP response sent
    mock,           \* MockCrowdSrcService::create_user_result
    rawName,        \* the argument of UserName::new
    nameResult      \* what UserName::new returned

vars == <<pc, body, req, pending, users, nextId, repoResult, svcResult, notified,
          user_email_map, lockHolder, apiResult, response, mock, rawName, nameResult>>

NoBody == [tag |-> "None"]
NoReq == [tag |-> "None"]
NoRow == [tag |-> "None"]
EmptyMap == [e \in {} |-> ""]

\* Raw request fields the requests are drawn from
RequestUserNames ==
    {<<"a">>, <<" ", "a">>, <<"b">>, <<" ">>, <<"a", " ", "b">>}
RequestEmails == {<<"x", "@", "y">>, <<"z", "@", "y">>, <<"x">>}
RequestBodies ==
    [username : RequestUserNames, email_address : RequestEmails]

(***************************************************************************)
(* The store: Postgres behind sqlx (outbound/sqlx_user_repository.rs)      *)
(***************************************************************************)
UNIQUE_CONSTRAINT_VIOLATION_CODE == "2067"

\* SQLSTATE unique_violation, the code of the Postgres error a duplicate key raises
PG_UNIQUE_VIOLATION == "23505"

\* sqlx::Error values; code is DatabaseError::code(), an Option
UniqueViolationError ==
    [kind |-> "Database", code |-> <<PG_UNIQUE_VIOLATION>>,
     message |-> "duplicate key value violates unique constraint"]
AdminShutdownError ==
    [kind |-> "Database", code |-> <<"57P01">>,
     message |-> "terminating connection due to administrator command"]
IoError == [kind |-> "Io", code |-> <<>>, message |-> "connection reset by peer"]
PoolTimedOut ==
    [kind |-> "PoolTimedOut", code |-> <<>>,
     message |-> "pool timed out while waiting for an open connection"]

BeginErrors == {IoError, PoolTimedOut}
InsertErrors == {AdminShutdownError}
CommitErrors == {IoError}

\* users(id UNIQUE PRIMARY KEY, email UNIQUE, username UNIQUE, created_at) without
\* the constraint on username and email
ConflictsIdOnly(r1, r2) == r1.id = r2.id

\* users(id UNIQUE PRIMARY KEY, email UNIQUE, username UNIQUE, created_at):
\* two rows that cannot both be in the table
Conflicts(r1, r2) ==
    r1.id = r2.id \/ r1.email = r2.email \/ r1.username = r2.username

is_unique_constraint_violation(err) ==
    err.kind = "Database" /\ err.code # <<>>
    /\ err.code[1] = UNIQUE_CONSTRAINT_VIOLATION_CODE

\* The closure of map_err in create_user (lines 61-75)
MapSaveError(e, r) ==
    IF is_unique_constraint_violation(e)
    THEN DuplicateEmail(r.email)
    ELSE Unknown("failed to save user with username " \o DebugUserName(r.name)
                 \o " and email " \o DebugEmailAddress(r.email), e)

\* save_user binding username to $2 (email) and email to $3 (username)
NewRowSwapped(id, r) ==
    [id |-> id, email |-> Display(r.name), username |-> Display(r.email)]

\* The row save_user inserts (created_at is left out: nothing reads it)
NewRow(id, r) ==
    [id |-> id, email |-> Display(r.email), username |-> Display(r.name)]

\* Service::create_user without the notification
AfterRepoNoNotify(result) == "handler_ret"

\* Service::create_user, after the repository returned: notify on Ok only
AfterRepo(result) == IF result.tag = "Ok" THEN "notify" ELSE "handler_ret"

(***************************************************************************)
(* Initial states                                                          *)
(***************************************************************************)
InitCommon ==
    /\ pc = [p \in Procs |-> "idle"]
    /\ body = [p \in Procs |-> NoBody]
    /\ req = [p \in Procs |-> NoReq]
    /\ pending = [p \in Procs |-> NoRow]
    /\ users = {}
    /\ nextId = 1
    /\ repoResult = [p \in Procs |-> NoResult]
    /\ svcResult = [p \in Procs |-> NoResult]
    /\ notified = [p \in Procs |-> <<>>]
    /\ user_email_map = EmptyMap
    /\ lockHolder = 0
    /\ apiResult = [p \in Procs |-> NoResult]
    /\ response = [p \in Procs |-> NoResult]

Init ==
    /\ InitCommon
    /\ mock = NoResult
    /\ rawName = <<>>
    /\ nameResult = NoResult

(***************************************************************************)
(* The handler create_user (inbound/http/handlers/create_user.rs)          *)
(***************************************************************************)
\* axum hands the handler the deserialized body
Receive(p) ==
    /\ pc[p] = "idle"
    /\ \E b \in RequestBodies : body' = [body EXCEPT ![p] = b]
    /\ pc' = [pc EXCEPT ![p] = "handler"]
    /\ UNCHANGED <<req, pending, users, nextId, repoResult, svcResult, notified,
                   user_email_map, lockHolder, apiResult, response, mock,
                   rawName, nameResult>>

\* The handler without the early return: an unparsable body goes on to the service
HandlerParseNoEarlyReturn(p) ==
    /\ pc[p] = "handler"
    /\ LET r == try_into_domain(body[p]) IN
        /\ req' = [req EXCEPT ![p] =
                    IF r.tag = "Ok" THEN r.value
                    ELSE [name |-> body[p].username, email |-> body[p].email_address]]
        /\ pc' = [pc EXCEPT ![p] = "service"]
    /\ UNCHANGED <<body, pending, users, nextId, repoResult, svcResult, notified,
                   user_email_map, lockHolder, apiResult, response, mock,
                   rawName, nameResult>>

\* let domain_req = body.try_into_domain()?;
HandlerParse(p) ==
    /\ pc[p] = "handler"
    /\ LET r == try_into_domain(body[p]) IN
        IF r.tag = "Err"
        THEN LET res == [tag |-> "Err", value |-> ApiErrorFromParseError(r)] IN
             /\ apiResult' = [apiResult EXCEPT ![p] = res]
             /\ response' = [response EXCEPT ![p] = IntoResponse(res)]
             /\ pc' = [pc EXCEPT ![p] = "done"]
             /\ req' = req
        ELSE /\ req' = [req EXCEPT ![p] = r.value]
             /\ pc' = [pc EXCEPT ![p] = "service"]
             /\ UNCHANGED <<apiResult, response>>
    /\ UNCHANGED <<body, pending, users, nextId, repoResult, svcResult, notified,
                   user_email_map, lockHolder, mock, rawName, nameResult>>

\* .map_err(ApiError::from).map(|ref user| ApiSuccess::new(CREATED, user.into()))
HandlerReturn(p) ==
    /\ pc[p] = "handler_ret"
    /\ LET res == HandlerResult(svcResult[p]) IN
        /\ apiResult' = [apiResult EXCEPT ![p] = res]
        /\ response' = [response EXCEPT ![p] = IntoResponse(res)]
    /\ pc' = [pc EXCEPT ![p] = "done"]
    /\ UNCHANGED <<body, req, pending, users, nextId, repoResult, svcResult,
                   notified, user_email_map, lockHolder, mock, rawName, nameResult>>

(***************************************************************************)
(* SqlxUserRepository::create_user, called by Service::create_user         *)
(***************************************************************************)
\* The repository returns result to the service, which awaits user_created on Ok
\* and otherwise returns result at once
RepoReturns(p, result) ==
    /\ repoResult' = [repoResult EXCEPT ![p] = result]
    /\ pc' = [pc EXCEPT ![p] = AfterRepo(result)]
    /\ svcResult' = IF AfterRepo(result) = "notify" THEN svcResult
                    ELSE [svcResult EXCEPT ![p] = result]

\* self.db_pool.begin().await succeeds
RepoBegin(p) ==
    /\ pc[p] = "service"
    /\ pc' = [pc EXCEPT ![p] = "save_user"]
    /\ UNCHANGED <<body, req, pending, users, nextId, repoResult, svcResult,
                   notified, user_email_map, lockHolder, apiResult, response,
                   mock, rawName, nameResult>>

\* self.db_pool.begin().await.context("failed to start Postgres transaction")?
RepoBeginFail(p) ==
    /\ pc[p] = "service"
    /\ \E e \in BeginErrors :
        RepoReturns(p, Unknown("failed to start Postgres transaction", e))
    /\ UNCHANGED <<body, req, pending, users, nextId, notified,
                   user_email_map, lockHolder, apiResult, response, mock,
                   rawName, nameResult>>

\* The INSERT waits while an open transaction holds a conflicting uncommitted row
InsertBlocked(p, row) ==
    \E q \in Procs \ {p} : pending[q] # NoRow /\ Conflicts(row, pending[q])

\* save_user whose insert succeeds makes create_user return Ok without tx.commit()
RepoSaveUserNoCommit(p) ==
    /\ pc[p] = "save_user"
    /\ LET row == NewRow(nextId, req[p]) IN
        /\ ~InsertBlocked(p, row)
        /\ nextId' = nextId + 1
        /\ IF \E r \in users : Conflicts(row, r)
           THEN RepoReturns(p, MapSaveError(UniqueViolationError, req[p]))
           ELSE RepoReturns(p, Ok(User_new(row.id, req[p].name, req[p].email)))
    /\ UNCHANGED <<body, req, pending, users, notified, user_email_map,
                   lockHolder, apiResult, response, mock, rawName, nameResult>>

\* save_user: the INSERT either adds the row to the transaction or is refused by a
\* uniqueness constraint, which map_err turns into the call's error
RepoSaveUser(p) ==
    /\ pc[p] = "save_user"
    /\ LET row == NewRow(nextId, req[p]) IN
        /\ ~InsertBlocked(p, row)
        /\ nextId' = nextId + 1
        /\ IF \E r \in users : Conflicts(row, r)
           THEN /\ RepoReturns(p, MapSaveError(UniqueViolationError, req[p]))
                /\ pending' = pending
           ELSE /\ pending' = [pending EXCEPT ![p] = row]
                /\ pc' = [pc EXCEPT ![p] = "commit"]
                /\ UNCHANGED <<repoResult, svcResult>>
    /\ UNCHANGED <<body, req, users, notified, user_email_map,
                   lockHolder, apiResult, response, mock, rawName, nameResult>>

\* save_user fails for another reason than a uniqueness constraint
RepoSaveUserFail(p) ==
    /\ pc[p] = "save_user"
    /\ nextId' = nextId + 1
    /\ \E e \in InsertErrors : RepoReturns(p, MapSaveError(e, req[p]))
    /\ UNCHANGED <<body, req, pending, users, notified, user_email_map,
                   lockHolder, apiResult, response, mock, rawName, nameResult>>

\* tx.commit().await succeeds; Ok(User::new(..))
RepoCommit(p) ==
    /\ pc[p] = "commit"
    /\ users' = users \cup {pending[p]}
    /\ pending' = [pending EXCEPT ![p] = NoRow]
    /\ RepoReturns(p, Ok(User_new(pending[p].id, req[p].name, req[p].email)))
    /\ UNCHANGED <<body, req, nextId, notified, user_email_map,
                   lockHolder, apiResult, response, mock, rawName, nameResult>>

\* create_user whose failed commit leaves the inserted row in the table
RepoCommitFailKeepsRow(p) ==
    /\ pc[p] = "commit"
    /\ users' = users \cup {pending[p]}
    /\ pending' = [pending EXCEPT ![p] = NoRow]
    /\ \E e \in CommitErrors :
        RepoReturns(p, Unknown("failed to commit Postgres transaction", e))
    /\ UNCHANGED <<body, req, nextId, notified, user_email_map, lockHolder,
                   apiResult, response, mock, rawName, nameResult>>

\* tx.commit().await.context("failed to commit Postgres transaction")?: the
\* transaction is rolled back
RepoCommitFail(p) ==
    /\ pc[p] = "commit"
    /\ pending' = [pending EXCEPT ![p] = NoRow]
    /\ \E e \in CommitErrors :
        RepoReturns(p, Unknown("failed to commit Postgres transaction", e))
    /\ UNCHANGED <<body, req, users, nextId, notified, user_email_map,
                   lockHolder, apiResult, response, mock, rawName, nameResult>>

(***************************************************************************)
(* CollectingUserNotifier::user_created, called by Service::create_user    *)
(***************************************************************************)
\* An insert that replaces the map by the single new entry
MapInsertDropsOthers(m, k, v) == [e \in {k} |-> v]

\* HashMap::insert
MapInsert(m, k, v) ==
    [e \in DOMAIN m \cup {k} |-> IF e = k THEN v ELSE m[e]]

\* self.user_notifier.user_created(user): self.user_email_map.write().await
UserCreatedLock(p) ==
    /\ pc[p] = "notify"
    /\ lockHolder = 0
    /\ lockHolder' = p
    /\ notified' = [notified EXCEPT ![p] = Append(@, repoResult[p].user)]
    /\ pc' = [pc EXCEPT ![p] = "notify_insert"]
    /\ UNCHANGED <<body, req, pending, users, nextId, repoResult, svcResult,
                   user_email_map, apiResult, response, mock, rawName, nameResult>>

\* .insert(user.email().clone(), String::new()); the write guard is dropped,
\* user_created completes and Service::create_user returns result
UserCreatedInsert(p) ==
    /\ pc[p] = "notify_insert"
    /\ lockHolder = p
    /\ user_email_map' = MapInsert(user_email_map, repoResult[p].user.email_addr, "")
    /\ lockHolder' = 0
    /\ svcResult' = [svcResult EXCEPT ![p] = repoResult[p]]
    /\ pc' = [pc EXCEPT ![p] = "handler_ret"]
    /\ UNCHANGED <<body, req, pending, users, nextId, repoResult, notified,
                   apiResult, response, mock, rawName, nameResult>>

(***************************************************************************)
(* Specification of the server: concurrent create-user requests            *)
(***************************************************************************)
Next ==
    \E p \in Procs :
        \/ Receive(p)
        \/ HandlerParse(p)
        \/ RepoBegin(p)
        \/ RepoBeginFail(p)
        \/ RepoSaveUser(p)
        \/ RepoSaveUserFail(p)
        \/ RepoCommit(p)
        \/ RepoCommitFail(p)
        \/ UserCreatedLock(p)
        \/ UserCreatedInsert(p)
        \/ HandlerReturn(p)

Spec == Init /\ [][Next]_vars

(***************************************************************************)
(* Specification of the server with a notifier that blocks: the map's      *)
(* RwLock is shared with whoever holds the other clone of the Arc (TestApp *)
(* keeps one), and a guard taken there and kept makes write().await, and   *)
(* so user_created, wait for ever                                          *)
(***************************************************************************)
\* The holder of the other clone of the Arc, as a value of lockHolder
OtherHolder == NumProcs + 1

\* user_email_map.read().await on the other clone; the guard is kept
GuardTakenElsewhere ==
    /\ lockHolder = 0
    /\ lockHolder' = OtherHolder
    /\ UNCHANGED <<pc, body, req, pending, users, nextId, repoResult, svcResult,
                   notified, user_email_map, apiResult, response, mock, rawName,
                   nameResult>>

\* The steps of the task that serves request p
ProcStep(p) ==
    \/ Receive(p)
    \/ HandlerParse(p)
    \/ RepoBegin(p)
    \/ RepoBeginFail(p)
    \/ RepoSaveUser(p)
    \/ RepoSaveUserFail(p)
    \/ RepoCommit(p)
    \/ RepoCommitFail(p)
    \/ UserCreatedLock(p)
    \/ UserCreatedInsert(p)
    \/ HandlerReturn(p)

NextBlocking ==
    \/ \E p \in Procs : ProcStep(p)
    \/ GuardTakenElsewhere

\* The tokio runtime polls every task that can make progress
SpecBlocking ==
    /\ Init
    /\ [][NextBlocking]_vars
    /\ \A p \in Procs : WF_vars(ProcStep(p))

(***************************************************************************)
(* Specification of the handler over MockCrowdSrcService (the unit tests   *)
(* of create_user.rs): the service returns a preset result                 *)
(***************************************************************************)
\* anyhow!("substitute error"): an error with no source
NoCause == [kind |-> "None", code |-> <<>>, message |-> ""]
SubstituteError == Unknown("substitute error", NoCause)

\* The results the tests preset, over the names and addresses of RequestBodies
MockResults ==
    {Ok(User_new(1, <<"a">>, <<"x", "@", "y">>)), SubstituteError}
    \cup {DuplicateUserName(n) : n \in {<<"a">>, <<"b">>}}
    \cup {DuplicateEmail(e) : e \in {<<"x", "@", "y">>, <<"z", "@", "y">>}}

\* MockCrowdSrcService::create_user: mem::swap of the preset result and a substitute
MockCreateUser(p) ==
    /\ pc[p] = "service"
    /\ svcResult' = [svcResult EXCEPT ![p] = mock]
    /\ mock' = SubstituteError
    /\ pc' = [pc EXCEPT ![p] = "handler_ret"]
    /\ UNCHANGED <<body, req, pending, users, nextId, repoResult, notified,
                   user_email_map, lockHolder, apiResult, response, rawName,
                   nameResult>>

InitMock ==
    /\ InitCommon
    /\ mock \in MockResults
    /\ rawName = <<>>
    /\ nameResult = NoResult

NextMock ==
    \E p \in Procs :
        \/ Receive(p)
        \/ HandlerParse(p)
        \/ MockCreateUser(p)
        \/ HandlerReturn(p)

SpecMock == InitMock /\ [][NextMock]_vars

(***************************************************************************)
(* Specification of UserName::new on every string of at most MaxLen        *)
(* characters                                                              *)
(***************************************************************************)
ApplyUserNameNew ==
    /\ nameResult = NoResult
    /\ nameResult' = UserName_new(rawName)
    /\ UNCHANGED <<pc, body, req, pending, users, nextId, repoResult, svcResult,
                   notified, user_email_map, lockHolder, apiResult, response,
                   mock, rawName>>

InitUserName ==
    /\ InitCommon
    /\ mock = NoResult
    /\ rawName \in StringsUpTo(MaxLen)
    /\ nameResult = NoResult

NextUserName == ApplyUserNameNew

SpecUserName == InitUserName /\ [][NextUserName]_vars

(***************************************************************************)
(* Properties                                                              *)
(***************************************************************************)
\* The request of p reached the repository and the service has returned
ServiceReturned(p) == req[p] # NoReq /\ svcResult[p] # NoResult

\* The call of p met no failure of the infrastructure: its error, if any, comes
\* from a uniqueness constraint of the store
NoInfraFault(p) ==
    svcResult[p].tag = "Unknown" => svcResult[p].cause = UniqueViolationError

\* The call of p failed on a uniqueness constraint of the store
FailedOnUniqueness(p) ==
    /\ ServiceReturned(p)
    /\ svcResult[p].tag # "Ok"
    /\ NoInfraFault(p)

\* C1: in every reachable state no two persisted users share a username and no
\* two persisted users share an email.
C1_UniqueUsers ==
    \A r1, r2 \in users :
        r1 # r2 => r1.username # r2.username /\ r1.email # r2.email

\* C1 witness: two calls whose requests collide have both left the repository
\* and a user is persisted.
C1_Witness ==
    \E p, q \in Procs :
        /\ p # q
        /\ repoResult[p] # NoResult /\ repoResult[q] # NoResult
        /\ req[p].name = req[q].name \/ req[p].email = req[q].email
        /\ users # {}

\* C2 (the claim as stated): of two calls with identical username and email on a
\* store holding neither value, with no infrastructure failure, exactly one
\* returns Ok and the other returns DuplicateUserName or DuplicateEmail.
C2_OneSuccessOneDuplicate ==
    \A p, q \in Procs :
        ( /\ p # q
          /\ ServiceReturned(p) /\ ServiceReturned(q)
          /\ req[p] = req[q]
          /\ NoInfraFault(p) /\ NoInfraFault(q)
          /\ \A o \in Procs \ {p, q} : req[o] = NoReq )
        => \E a, b \in {p, q} :
              /\ a # b
              /\ svcResult[a].tag = "Ok"
              /\ svcResult[b].tag \in {"DuplicateUserName", "DuplicateEmail"}

\* C3: when the service has returned, user_created was invoked exactly once, with
\* the created user, if the repository returned Ok, and not at all if it returned
\* an error; it is never invoked before the repository returned Ok.
C3_NotifiedOnceIffOk ==
    \A p \in Procs :
        /\ (ServiceReturned(p) /\ repoResult[p].tag = "Ok")
              => notified[p] = <<repoResult[p].user>>
        /\ repoResult[p].tag # "Ok" => notified[p] = <<>>
        /\ Len(notified[p]) <= 1

\* C3 witness: one call has returned Ok and another has returned an error.
C3_Witness ==
    \E p, q \in Procs :
        /\ ServiceReturned(p) /\ svcResult[p].tag = "Ok"
        /\ ServiceReturned(q) /\ svcResult[q].tag = "Unknown"

\* C4: whenever user_created is being or has been dispatched for a user, the
\* transaction that inserted the user's row has committed: the row is in the table.
C4_NotifiedAfterCommit ==
    \A p \in Procs :
        (pc[p] \in {"notify", "notify_insert"} \/ notified[p] # <<>>)
        => /\ repoResult[p].tag = "Ok"
           /\ pending[p] = NoRow
           /\ \E r \in users :
                /\ r.id = repoResult[p].user.id
                /\ r.username = Display(repoResult[p].user.username)
                /\ r.email = Display(repoResult[p].user.email_addr)

\* C4 witness: user_created has been invoked for a created user.
C4_Witness == \E p \in Procs : notified[p] # <<>> /\ pc[p] = "done"

\* C5 (the claim as stated): a create_user whose username is already persisted
\* fails with DuplicateUserName carrying that username.
C5_DuplicateUserNameReported ==
    \A p \in Procs :
        ( /\ FailedOnUniqueness(p)
          /\ \E r \in users : r.username = Display(req[p].name) )
        => svcResult[p] = DuplicateUserName(req[p].name)

\* C6 (the claim as stated): a create_user whose email is already persisted fails
\* with DuplicateEmail carrying that email, rendered as 422 with the message
\* "user with email '<email>' already exists".
C6_DuplicateEmailReported ==
    \A p \in Procs :
        ( /\ FailedOnUniqueness(p)
          /\ pc[p] = "done"
          /\ \E r \in users : r.email = Display(req[p].email) )
        => /\ svcResult[p] = DuplicateEmail(req[p].email)
           /\ response[p] =
                    [status |-> 422,
                     body |-> [status_code |-> 422,
                               data |-> [message |-> "user with email '"
                                            \o to_string(req[p].email)
                                            \o "' already exists"]]]

\* The body of p has been handled and does not parse into a CreateUserRequest
ParseFailed(p) ==
    /\ body[p] # NoBody
    /\ pc[p] # "handler"
    /\ try_into_domain(body[p]).tag = "Err"

\* The step is the handling, by some request, of a body that does not parse
RejectingStep ==
    \E p \in Procs :
        /\ pc[p] = "handler"
        /\ pc'[p] # "handler"
        /\ try_into_domain(body[p]).tag = "Err"

\* C7: a request whose username or email_address fails parsing is answered 422 in
\* the step that parses it, the service and the repository are never invoked for
\* it, and the step leaves the persisted users, the open transactions and the
\* notifier's record unchanged.
C7_ValidationFailsFast ==
    /\ [](\A p \in Procs :
            ParseFailed(p) =>
                /\ pc[p] = "done"
                /\ response[p].status = 422
                /\ apiResult[p].value.variant = "UnprocessableEntity"
                /\ req[p] = NoReq
                /\ repoResult[p] = NoResult /\ svcResult[p] = NoResult
                /\ pending[p] = NoRow
                /\ notified[p] = <<>>)
    /\ [][RejectingStep =>
            UNCHANGED <<users, pending, nextId, notified, user_email_map,
                        lockHolder>>]_vars

\* C7 witness: a request with an unparsable username and one with an unparsable
\* email address have both been answered.
C7_Witness ==
    \E p, q \in Procs :
        /\ ParseFailed(p) /\ try_into_domain(body[p]).variant = "Name"
        /\ ParseFailed(q) /\ try_into_domain(body[q]).variant = "EmailAddress"
        /\ pc[p] = "done" /\ pc[q] = "done"

\* C8: when the service returns DuplicateUserName{username} the handler's result
\* is UnprocessableEntity("user with username <username> already exists") and the
\* response is 422; when it returns DuplicateEmail{email} the result is
\* UnprocessableEntity("user with email '<email>' already exists").
C8_DuplicateMessages ==
    \A p \in Procs :
        pc[p] = "done" =>
            /\ svcResult[p].tag = "DuplicateUserName" =>
                /\ apiResult[p] =
                     [tag |-> "Err",
                      value |-> UnprocessableEntity(
                          "user with username " \o to_string(svcResult[p].username)
                          \o " already exists")]
                /\ response[p].status = 422
                /\ response[p].body.data.message = apiResult[p].value.message
            /\ svcResult[p].tag = "DuplicateEmail" =>
                /\ apiResult[p] =
                     [tag |-> "Err",
                      value |-> UnprocessableEntity(
                          "user with email '" \o to_string(svcResult[p].email)
                          \o "' already exists")]
                /\ response[p].status = 422
                /\ response[p].body.data.message = apiResult[p].value.message
            /\ svcResult[p] = DuplicateUserName(<<"a">>) =>
                response[p].body.data.message = "user with username a already exists"
            /\ svcResult[p] = DuplicateEmail(<<"x", "@", "y">>) =>
                response[p].body.data.message = "user with email 'x@y' already exists"

\* C8 witness: the handler has answered a request for which the service returned
\* DuplicateUserName.
C8_Witness ==
    \E p \in Procs :
        /\ pc[p] = "done"
        /\ svcResult[p].tag = "DuplicateUserName"
        /\ response[p].status = 422

\* The anyhow errors the repository builds, any of which ApiError::from may be given
AnyhowErrors ==
    {Unknown(c, e) :
        c \in {"failed to start Postgres transaction",
               "failed to commit Postgres transaction"},
        e \in BeginErrors \cup InsertErrors \cup CommitErrors}

GenericServerError ==
    [status |-> 500,
     body |-> [status_code |-> 500, data |-> [message |-> "Internal server error"]]]

\* C9: every response with status 500 is exactly {500, "Internal server error"};
\* every request the service failed with Unknown is answered so, whatever the
\* cause, hence any two such requests get identical responses; and an ApiError
\* made from any anyhow error is rendered the same way.
C9_ServerErrorIsGeneric ==
    /\ \A p \in Procs :
        pc[p] = "done" =>
            /\ response[p].status = 500 => response[p] = GenericServerError
            /\ svcResult[p].tag = "Unknown" => response[p] = GenericServerError
    /\ \A p, q \in Procs :
        (pc[p] = "done" /\ pc[q] = "done"
            /\ svcResult[p].tag = "Unknown" /\ svcResult[q].tag = "Unknown")
        => response[p] = response[q]
    /\ \A e \in AnyhowErrors :
        ApiErrorIntoResponse(ApiErrorFromAnyhow(e)) = GenericServerError

\* C9 witness: two requests for the same user failed with Unknown for different
\* causes and both have been answered.
C9_Witness ==
    \E p, q \in Procs :
        /\ pc[p] = "done" /\ pc[q] = "done"
        /\ req[p] # NoReq /\ req[p] = req[q]
        /\ svcResult[p].tag = "Unknown" /\ svcResult[q].tag = "Unknown"
        /\ svcResult[p].cause # svcResult[q].cause

\* The positions of the characters of s that are not whitespace
NonWhitespaceAt(s) == {i \in 1..Len(s) : ~IsWhitespace(s[i])}
Min(S) == CHOOSE x \in S : \A y \in S : x <= y
Max(S) == CHOOSE x \in S : \A y \in S : x >= y

\* C10: UserName::new fails with Empty when the string is empty or all whitespace;
\* fails with WithWhitespace carrying the untrimmed input when a whitespace
\* character lies between two other characters; otherwise succeeds with the
\* string cut to its first and last non-whitespace characters; so every
\* constructed UserName is non-empty and holds no whitespace.
C10_UserNameNew ==
    nameResult # NoResult =>
        LET nws == NonWhitespaceAt(rawName) IN
        IF nws = {}
        THEN nameResult = [tag |-> "Err", kind |-> "Empty"]
        ELSE IF \E i \in Min(nws)..Max(nws) : IsWhitespace(rawName[i])
             THEN nameResult = [tag |-> "Err", kind |-> "WithWhitespace",
                                invalid_username |-> to_string(rawName)]
             ELSE /\ nameResult.tag = "Ok"
                  /\ nameResult.value = SubSeq(rawName, Min(nws), Max(nws))
                  /\ nameResult.value # <<>>
                  /\ \A i \in 1..Len(nameResult.value) :
                        nameResult.value[i] \notin Whitespace

\* C10 witness: UserName::new has refused a string with whitespace inside and
\* around it, reporting it untrimmed.
C10_Witness ==
    /\ nameResult # NoResult
    /\ nameResult.tag = "Err" /\ nameResult.kind = "WithWhitespace"
    /\ Trim(rawName) # rawName
    /\ nameResult.invalid_username = to_string(rawName)

RepoFailed(p) == repoResult[p].tag \notin {"None", "Ok"}

\* C12: a repository call that returns an error leaves no row: every persisted row
\* was inserted by a call that returned Ok with that row's identifier, a failed
\* call holds no uncommitted row any more, and a row of a transaction still open
\* is not in the table.
C12_FailedCallLeavesNoRow ==
    /\ \A r \in users :
        \E p \in Procs :
            /\ repoResult[p].tag = "Ok"
            /\ r = NewRow(repoResult[p].user.id, req[p])
    /\ \A p \in Procs : RepoFailed(p) => pending[p] = NoRow
    /\ \A p \in Procs :
        pending[p] # NoRow =>
            /\ repoResult[p] = NoResult
            /\ \A r \in users : r.id # pending[p].id

\* C12 witness: one call failed at commit, after its insert was accepted, and
\* another call persisted its user.
C12_Witness ==
    \E p, q \in Procs :
        /\ RepoFailed(p)
        /\ repoResult[p].context = "failed to commit Postgres transaction"
        /\ repoResult[q].tag = "Ok"
        /\ users # {}

\* A persisted row of another call has the username or the email of p's request
Collides(p) ==
    \E r \in users :
        /\ r.username = Display(req[p].name) \/ r.email = Display(req[p].email)
        /\ ~(repoResult[p].tag = "Ok" /\ r.id = repoResult[p].user.id)

\* The request of p was valid, met no failure of the infrastructure and no
\* collision, and has been answered
AnsweredWithoutCollision(p) ==
    /\ pc[p] = "done"
    /\ req[p] # NoReq
    /\ NoInfraFault(p)
    /\ ~Collides(p)

\* The response 201 whose data is the identifier's string form and nothing else
CreatedResponse(id) ==
    [status |-> 201, body |-> [status_code |-> 201, data |-> [id |-> ToString(id)]]]

\* The rows of the table with the identifier of the user p created
RowsOf(p) == {r \in users : r.id = svcResult[p].user.id}

\* C13 (the claim as stated): a valid request that collides with no persisted user
\* is answered 201 with only the identifier, and the table then holds exactly one
\* row for it, whose username and email equal the submitted strings.
C13_CreatedRowEqualsSubmitted ==
    \A p \in Procs :
        AnsweredWithoutCollision(p) =>
            /\ svcResult[p].tag = "Ok"
            /\ response[p] = CreatedResponse(svcResult[p].user.id)
            /\ RowsOf(p) =
                 {[id |-> svcResult[p].user.id,
                   username |-> to_string(body[p].username),
                   email |-> to_string(body[p].email_address)]}

\* C13 (amended): as above, but the row's username is the submitted username with
\* the surrounding whitespace trimmed; the email is the submitted email_address.
C13_CreatedRowIsTrimmed ==
    \A p \in Procs :
        AnsweredWithoutCollision(p) =>
            /\ svcResult[p].tag = "Ok"
            /\ response[p] = CreatedResponse(svcResult[p].user.id)
            /\ DOMAIN response[p].body.data = {"id"}
            /\ RowsOf(p) =
                 {[id |-> svcResult[p].user.id,
                   username |-> to_string(Trim(body[p].username)),
                   email |-> to_string(body[p].email_address)]}
            /\ Cardinality({r \in users :
                              r.username = to_string(Trim(body[p].username))
                              /\ r.email = to_string(body[p].email_address)}) = 1

\* C13 witness: a request whose username had surrounding whitespace has been
\* answered 201.
C13_Witness ==
    \E p \in Procs :
        /\ AnsweredWithoutCollision(p)
        /\ response[p].status = 201
        /\ Trim(body[p].username) # body[p].username

\* C14 (the claim as stated): a repository failure that is no uniqueness violation
\* is returned as Unknown and never as DuplicateUserName or DuplicateEmail, and a
\* uniqueness violation is never returned as Unknown.
C14_FailuresClassified ==
    \A p \in Procs :
        /\ (RepoFailed(p) /\ ~Collides(p)) => repoResult[p].tag = "Unknown"
        /\ repoResult[p].tag \in {"DuplicateUserName", "DuplicateEmail"}
              => Collides(p)
        /\ repoResult[p].tag = "Unknown"
              => repoResult[p].cause # UniqueViolationError

\* Every request has been answered
AllDone == \A p \in Procs : pc[p] = "done"

\* The keys of the notifier's map, as the strings the table stores
MapKeys == {Display(k) : k \in DOMAIN user_email_map}

\* C15: the map never holds a key that is not the email of a persisted user, and
\* once every concurrent call has finished its keys are exactly the emails of the
\* persisted users, each with the empty payload.
C15_MapKeysArePersistedEmails ==
    /\ MapKeys \subseteq {r.email : r \in users}
    /\ AllDone =>
        /\ MapKeys = {r.email : r \in users}
        /\ \A k \in DOMAIN user_email_map : user_email_map[k] = ""

\* C15 witness: all calls have finished, at least two of them created a user and
\* took the write lock in turn.
C15_Witness ==
    /\ AllDone
    /\ Cardinality(users) >= 2
    /\ \A p \in Procs : svcResult[p].tag = "Ok" => notified[p] # <<>>
====
